---- MODULE Spec2Model ----
(***************************************************************************)
(* A model of falafel's RollupPublisher (src/falafel/src/rollup_publisher.ts).*)
(* One step of the model is the completion of one await of publishRollup   *)
(* (a collaborator call returning or raising, or a sleep resolving)        *)
(* followed by the synchronous code up to the next await or return.        *)
(* interrupt() is a separate action that may run between any two steps.    *)
(***************************************************************************)
EXTENDS Integers, Sequences, FiniteSets, TLC

VARIABLES
  interrupted,          \* RollupPublisher.interrupted
  interruptPromise,     \* state of RollupPublisher.interruptPromise
  maxFeePerGas,         \* constructor argument
  maxPriorityFeePerGas, \* constructor argument
  pc,                   \* the await publishRollup is suspended at
  estimatedGas,         \* argument of publishRollup
  jsLeft,               \* createTxData: entries of jsTxs not yet visited
  signatures,           \* createTxData: number of signatures pushed
  rollupTxs,            \* result of createTxData
  txStatuses,           \* the status list of publishRollup
  nonce,                \* local `nonce` of publishRollup
  i,                    \* loop index of the send / receipt loop (1-based)
  options,              \* SendTxOptions of the sendTx call in progress
  baseFeePerGas,        \* gate local
  currentBalance,       \* gate local
  receipt,              \* local `receipt` of the receipt loop
  result,               \* how the publishRollup call ended
  \* ---- observation (history) variables ----
  faults,               \* transient failures the environment has produced
  startNonce,           \* value getTransactionCount returned in this iteration
  iterLog,              \* sendTx events of the current outer iteration
  callData,             \* payload last passed to rollupDb.setCallData
  sentHash,             \* hash last passed to rollupDb.confirmSent
  polling,              \* hash passed to the receipt fetch in progress
  lastSent,             \* per entry: hash returned by its most recent send
  okHash,               \* per entry: hash for which a status=true receipt came
  lastPoll,             \* what the latest gate poll of this iteration observed
  intrDuring,           \* interrupt() ran while this publishRollup call was in progress
  intrAtEntry,          \* the flag was set when this publishRollup call began
  clearAttempted,       \* the caller tried clearInterrupt() after the last interrupt()
  timer,                \* the setTimeout of the latest sleepOrInterrupted
  sinceIntr,            \* chain-client calls started since interrupt() ran in this call
  running,              \* PipelineCoordinator.running
  pending,              \* publishRollup calls the coordinator's flow is about to make
  active,               \* publishRollup calls between entry and return
  count                 \* numbers of collaborator calls started in this call

vars == <<interrupted, interruptPromise, maxFeePerGas, maxPriorityFeePerGas,
          pc, estimatedGas, jsLeft, signatures, rollupTxs, txStatuses, nonce,
          i, options, baseFeePerGas, currentBalance, receipt, result,
          faults, startNonce, iterLog, callData, sentHash, polling,
          lastSent, okHash, lastPoll, intrDuring, intrAtEntry,
          clearAttempted, timer, sinceIntr, running, pending,
          active, count>>

----------------------------------------------------------------------------
\* Bounds of the model.
MaxBroadcast == 2   \* offchainDataTxs has 0..MaxBroadcast entries
MaxJsTxs == 1       \* rollup txs carrying a signature
MaxNonce == 1       \* getTransactionCount returns 0..MaxNonce
MaxFaults == 2      \* transient failures per behaviour
MaxFee == 2         \* maxFeePerGas is MaxFee (GateSpec: in 1..MaxFee)
MaxPriority == 1    \* maxPriorityFeePerGas is MaxPriority (GateSpec: in 0..MaxPriority)
MaxGas == 2         \* estimatedGas is MaxGas (GateSpec: in 1..MaxGas)

\* Values standing for `undefined`.
NoHash == 0
Undef == -1
ProofPayload == 0

BaseFees == 0..(MaxFee + 1)
Balances == 0..(MaxFee * MaxGas + 1)

NoReceipt == [got |-> FALSE, status |-> FALSE, revertError |-> "none"]
RevertNames == {"none", "INCORRECT_STATE_HASH", "OTHER_ERROR"}
Receipts == {[got |-> TRUE, status |-> TRUE, revertError |-> "none"]}
            \cup {[got |-> TRUE, status |-> FALSE, revertError |-> e] : e \in RevertNames}

ZeroCount == [sends |-> 0, sleeps |-> 0, receipts |-> 0, iters |-> 0,
              polls |-> 0, confirms |-> 0, setCalls |-> 0, timerStops |-> 0,
              timeouts |-> 0, fetchErrors |-> 0]
Bump(c, f) == [c EXCEPT ![f] = @ + 1]

NoPoll == [polled |-> FALSE, feeOk |-> FALSE, balanceOk |-> FALSE]

NoOptions == [nonce |-> Undef, maxFeePerGas |-> Undef, maxPriorityFeePerGas |-> Undef]

----------------------------------------------------------------------------
\* MakeTxStatuses with the rollup proof put first.
MakeTxStatusesProofFirst(txs) ==
  <<[success |-> FALSE, txHash |-> NoHash, tx |-> txs.rollupProofTx,
     name |-> <<"rollup proof", 0, 0>>]>>
  \o [j \in 1..Len(txs.offchainDataTxs) |->
       [success |-> FALSE, txHash |-> NoHash, tx |-> txs.offchainDataTxs[j],
        name |-> <<"broadcast data", j, Len(txs.offchainDataTxs)>>]]

\* The status list built at lines 82-89: broadcast entries in original
\* order, the rollup proof last.
MakeTxStatuses(txs) ==
  [j \in 1..Len(txs.offchainDataTxs) |->
     [success |-> FALSE, txHash |-> NoHash, tx |-> txs.offchainDataTxs[j],
      name |-> <<"broadcast data", j, Len(txs.offchainDataTxs)>>]]
  \o <<[success |-> FALSE, txHash |-> NoHash, tx |-> txs.rollupProofTx,
        name |-> <<"rollup proof", 0, 0>>]>>

\* NextUnsuccessful without the `if (success) continue;`.
NextUnsuccessfulNoSkip(st, from) ==
  IF from > Len(st) THEN Len(st) + 1 ELSE from

\* `if (success) continue;` of both for loops: the first index >= from whose
\* entry is not successful, Len(st) + 1 when there is none.
RECURSIVE NextUnsuccessful(_, _)
NextUnsuccessful(st, from) ==
  IF from > Len(st) THEN Len(st) + 1
  ELSE IF st[from].success THEN NextUnsuccessful(st, from + 1)
  ELSE from

\* CallDataOf taking the first transaction of the batch.
CallDataOfFirst(txs) ==
  IF txs.offchainDataTxs # <<>> THEN txs.offchainDataTxs[1] ELSE txs.rollupProofTx

\* The payload passed to setCallData at line 73.
CallDataOf(txs) == txs.rollupProofTx

\* SetTxHash marking the entry successful as soon as it has a hash.
SetTxHashMarksSuccess(st, j, h) ==
  [st EXCEPT ![j].txHash = h, ![j].success = (h # NoHash)]

\* The assignment to txStatuses[i].txHash at line 107.
SetTxHash(st, j, h) == [st EXCEPT ![j].txHash = h]

\* NextNonce without the increment.
NextNonceStuck(n) == n

\* The hash blockchain.sendTx returns (line 189): transaction hashes are
\* unique, so the hash is identified with the number of the call returning it.
NewHash(c) == c.sends

\* `nonce++` at line 108.
NextNonce(n) == n + 1

\* GateVerdict without the balance check of lines 57-61.
GateVerdictNoBalance(baseFee, balance, gas) ==
  LET estimatedFeePerGas == baseFee + maxPriorityFeePerGas
  IN IF estimatedFeePerGas > maxFeePerGas THEN "fee" ELSE "clear"

\* GateVerdict with `>=` for `>` at line 50.
GateVerdictStrict(baseFee, balance, gas) ==
  LET estimatedFeePerGas == baseFee + maxPriorityFeePerGas
      requiredBalance == maxFeePerGas * gas
  IN IF estimatedFeePerGas >= maxFeePerGas THEN "fee"
     ELSE IF balance < requiredBalance THEN "balance"
     ELSE "clear"

\* Lines 34-63: what one gate poll decides.
GateVerdict(baseFee, balance, gas) ==
  LET estimatedFeePerGas == baseFee + maxPriorityFeePerGas
      requiredBalance == maxFeePerGas * gas
  IN IF estimatedFeePerGas > maxFeePerGas THEN "fee"
     ELSE IF balance < requiredBalance THEN "balance"
     ELSE "clear"

\* IsFatalRevert without the test of line 138.
IsFatalRevertNever(r) == FALSE

\* Lines 134 and 138: a decoded revert error named INCORRECT_STATE_HASH.
IsFatalRevert(r) ==
  r.revertError # "none" /\ r.revertError = "INCORRECT_STATE_HASH"

----------------------------------------------------------------------------
\* The control state a step leaves behind, as a record.
Cur == [pc |-> pc, result |-> result, count |-> count, i |-> i,
        options |-> options, nonce |-> nonce, iterLog |-> iterLog,
        sentHash |-> sentHash, polling |-> polling, timer |-> timer]

\* The awaits that are calls of the chain client (this.blockchain or
\* this.ethereumRpc); setCallData and confirmSent go to the rollup database.
ChainPcs == {"getUserProofApprovalStatus", "createRollupTxs", "getAccounts",
             "getBlockByNumber", "getBalance", "getTransactionCount",
             "sendTx", "getTransactionReceipt"}

\* The count of chain-client calls started after interrupt(), when the step
\* suspends publishRollup at the await `next`.
SinceIntrAfter(next) ==
  IF intrDuring /\ next \in ChainPcs THEN sinceIntr + 1 ELSE sinceIntr

Apply(r) ==
  /\ pc' = r.pc
  /\ result' = r.result
  /\ count' = r.count
  /\ i' = r.i
  /\ options' = r.options
  /\ nonce' = r.nonce
  /\ iterLog' = r.iterLog
  /\ sentHash' = r.sentHash
  /\ polling' = r.polling
  /\ timer' = r.timer
  /\ sinceIntr' = SinceIntrAfter(r.pc)
  /\ active' = IF r.pc = "done" /\ pc # "done" THEN active - 1 ELSE active

\* Return stopping the publish timer on every path.
ReturnStopsTimer(c, r) ==
  [c EXCEPT !.pc = "done", !.result = r, !.count = Bump(@, "timerStops")]

\* `return <r>` of publishRollup.
Return(c, r) == [c EXCEPT !.pc = "done", !.result = r]

\* sleepOrInterrupted (lines 209-211) is called: a timer is set and raced
\* against interruptPromise.
StartSleep(c, where) ==
  [c EXCEPT !.pc = where, !.count = Bump(@, "sleeps"), !.timer = "pending"]

\* SleepOver waiting for the timer alone.
SleepOverTimerOnly == timer = "fired"

\* The race of line 210 is decided: the timer has fired or interruptPromise
\* is resolved.
SleepOver == timer = "fired" \/ interruptPromise = "resolved"

\* GateHead polling again without testing the flag.
GateHeadPollsAgain(c) ==
  [c EXCEPT !.pc = "getBlockByNumber", !.count = Bump(@, "polls")]

\* Head of the gate loop (line 30) followed, when the gate returns at once,
\* by lines 94-96.
GateHead(c) ==
  IF interrupted THEN Return(c, "false")
  ELSE [c EXCEPT !.pc = "getBlockByNumber", !.count = Bump(@, "polls")]

\* MainLoopHead with an `if` for the `while`: one outer iteration at most.
MainLoopHeadOnce(c) ==
  IF interrupted \/ c.count.iters >= 1 THEN Return(c, "false")
  ELSE GateHead([c EXCEPT !.count = Bump(@, "iters")])

\* MainLoopHead running the loop body before it tests the flag.
MainLoopHeadTestsLate(c) ==
  [c EXCEPT !.pc = "getBlockByNumber",
            !.count = Bump(Bump(@, "iters"), "polls")]

\* AfterGatePoll re-polling at once on a failed condition.
AfterGatePollNoSleep(c, verdict) ==
  IF verdict = "clear"
    THEN IF interrupted THEN Return(c, "false")
         ELSE [c EXCEPT !.pc = "getTransactionCount"]
    ELSE GateHead(c)

\* Lines 50-63 once both values are fetched: a sleep on either failed
\* condition, else the gate returns and lines 94-98 follow.
AfterGatePoll(c, verdict) ==
  IF verdict = "clear"
    THEN IF interrupted THEN Return(c, "false")
         ELSE [c EXCEPT !.pc = "getTransactionCount"]
    ELSE StartSleep(c, "gateSleep")

\* Head of mainLoop (line 92).
MainLoopHead(c) ==
  IF interrupted THEN Return(c, "false")
  ELSE GateHead([c EXCEPT !.count = Bump(@, "iters")])

\* The call of blockchain.sendTx at line 189.
CallSendTx(c, j, opts) ==
  [c EXCEPT !.pc = "sendTx", !.i = j, !.options = opts,
            !.count = Bump(@, "sends"),
            !.iterLog = Append(@, [ev |-> "call", i |-> j, nonce |-> opts.nonce,
                                    hash |-> NoHash])]

\* RetrySendTx building fresh options from the advanced nonce.
RetrySendTxFreshNonce(c) ==
  CallSendTx([c EXCEPT !.nonce = NextNonce(c.nonce)], c.i,
             [c.options EXCEPT !.nonce = c.nonce])

\* Lines 187-189 after the sleep of line 193: the same txData and the same
\* options object are sent again.
RetrySendTx(c) == CallSendTx(c, c.i, c.options)

\* AfterSendLoop recording the sent hash on the first full dispatch only.
AfterSendLoopRecordsOnce(c, st) ==
  IF \E s \in 1..Len(st) : st[s].txHash = NoHash THEN Return(c, "false")
  ELSE [c EXCEPT !.pc = "confirmSent",
                 !.sentHash = IF c.count.confirms = 0 THEN st[Len(st)].txHash
                              ELSE c.sentHash,
                 !.count = Bump(@, "confirms")]

\* AfterSendLoop without the test of line 115.
AfterSendLoopNoTest(c, st) ==
  [c EXCEPT !.pc = "confirmSent", !.sentHash = st[Len(st)].txHash,
            !.count = Bump(@, "confirms")]

\* AfterSendLoop reporting the first hash instead of the last.
AfterSendLoopFirstHash(c, st) ==
  IF \E s \in 1..Len(st) : st[s].txHash = NoHash THEN Return(c, "false")
  ELSE [c EXCEPT !.pc = "confirmSent", !.sentHash = st[1].txHash,
                 !.count = Bump(@, "confirms")]

\* Lines 115-118 after the send loop has ended.
AfterSendLoop(c, st) ==
  IF \E s \in 1..Len(st) : st[s].txHash = NoHash THEN Return(c, "false")
  ELSE [c EXCEPT !.pc = "confirmSent", !.sentHash = st[Len(st)].txHash,
                 !.count = Bump(@, "confirms")]

\* SendLoop skipping the entries that hold a hash already.
SendLoopSkipsHashed(c, st, from) ==
  LET todo == {k \in from..Len(st) : ~st[k].success /\ st[k].txHash = NoHash}
      j == IF todo = {} THEN Len(st) + 1
           ELSE CHOOSE k \in todo : \A m \in todo : k <= m
  IN IF j <= Len(st) /\ ~interrupted
       THEN CallSendTx([c EXCEPT !.nonce = NextNonce(c.nonce)], j,
                       [nonce |-> c.nonce, maxFeePerGas |-> maxFeePerGas,
                        maxPriorityFeePerGas |-> maxPriorityFeePerGas])
       ELSE AfterSendLoop(c, st)

\* SendLoop without the flag test of line 101.
SendLoopIgnoresFlag(c, st, from) ==
  LET j == NextUnsuccessful(st, from) IN
  IF j <= Len(st)
    THEN CallSendTx([c EXCEPT !.nonce = NextNonce(c.nonce)], j,
                    [nonce |-> c.nonce, maxFeePerGas |-> maxFeePerGas,
                     maxPriorityFeePerGas |-> maxPriorityFeePerGas])
    ELSE AfterSendLoop(c, st)

\* SendLoop spending a nonce on every entry it skips.
SendLoopSkipSpends(c, st, from) ==
  LET j == NextUnsuccessful(st, from) IN
  IF j <= Len(st) /\ ~interrupted
    THEN CallSendTx([c EXCEPT !.nonce = c.nonce + (j - from) + 1], j,
                    [nonce |-> c.nonce + (j - from),
                     maxFeePerGas |-> maxFeePerGas,
                     maxPriorityFeePerGas |-> maxPriorityFeePerGas])
    ELSE AfterSendLoop(c, st)

\* The send loop (lines 101-113) from index `from` on, up to its next await.
SendLoop(c, st, from) ==
  LET j == NextUnsuccessful(st, from) IN
  IF j <= Len(st) /\ ~interrupted
    THEN CallSendTx([c EXCEPT !.nonce = NextNonce(c.nonce)], j,
                    [nonce |-> c.nonce, maxFeePerGas |-> maxFeePerGas,
                     maxPriorityFeePerGas |-> maxPriorityFeePerGas])
    ELSE AfterSendLoop(c, st)

\* AfterNoReceipt treating a missing receipt like a failed one.
AfterNoReceiptRetries(c) ==
  StartSleep([c EXCEPT !.count = Bump(@, "timeouts")], "revertSleep")

\* Line 128: getTransactionReceiptSafe returned null.
AfterNoReceipt(c) ==
  Return([c EXCEPT !.count = Bump(@, "timeouts")], "false")

\* AfterFailedReceipt giving up on the second failed iteration.
AfterFailedReceiptGivesUp(c, r) ==
  IF IsFatalRevert(r) \/ c.count.iters >= 2 THEN Return(c, "false")
  ELSE StartSleep(c, "revertSleep")

\* AfterFailedReceipt without the sleep of line 143.
AfterFailedReceiptNoSleep(c, r) ==
  IF IsFatalRevert(r) THEN Return(c, "false")
  ELSE IF interrupted THEN Return(c, "false")
  ELSE [c EXCEPT !.pc = "getBlockByNumber",
                 !.count = Bump(Bump(@, "iters"), "polls")]

\* Lines 132-147: a receipt with status false.
AfterFailedReceipt(c, r) ==
  IF IsFatalRevert(r) THEN Return(c, "false")
  ELSE StartSleep(c, "revertSleep")

\* RetryReceipt giving up after the sleep.
RetryReceiptAborts(c) == Return(c, "false")

\* Lines 199-201 after the sleep of line 204: undefined (and line 128's
\* return false) when interrupted, the same fetch again otherwise.
RetryReceipt(c) ==
  IF interrupted THEN Return(c, "false")
  ELSE [c EXCEPT !.pc = "getTransactionReceipt", !.count = Bump(@, "receipts")]

\* ReceiptLoop leaving the loop (instead of publishRollup) when the receipt
\* fetch returns undefined.
ReceiptLoopBreaks(c, st, from) ==
  LET j == NextUnsuccessful(st, from) IN
  IF j > Len(st) \/ interrupted
    THEN Return([c EXCEPT !.count = Bump(@, "timerStops")], "true")
    ELSE [c EXCEPT !.pc = "getTransactionReceipt", !.i = j,
                   !.polling = st[j].txHash, !.count = Bump(@, "receipts")]

\* ReceiptLoop taking the unconfirmed entries last to first.
ReceiptLoopBackwards(c, st, from) ==
  LET open == {k \in 1..Len(st) : ~st[k].success} IN
  IF open = {}
    THEN Return([c EXCEPT !.count = Bump(@, "timerStops")], "true")
    ELSE IF interrupted THEN Return(c, "false")
    ELSE LET j == CHOOSE k \in open : \A m \in open : m <= k IN
         [c EXCEPT !.pc = "getTransactionReceipt", !.i = j,
                   !.polling = st[j].txHash, !.count = Bump(@, "receipts")]

\* The receipt loop (lines 121-153) from index `from` on, up to its next
\* await; getTransactionReceipt (line 199) returns undefined when interrupted.
ReceiptLoop(c, st, from) ==
  LET j == NextUnsuccessful(st, from) IN
  IF j > Len(st)
    THEN Return([c EXCEPT !.count = Bump(@, "timerStops")], "true")
    ELSE IF interrupted THEN Return([c EXCEPT !.i = j], "false")
    ELSE [c EXCEPT !.pc = "getTransactionReceipt", !.i = j,
                   !.polling = st[j].txHash, !.count = Bump(@, "receipts")]

----------------------------------------------------------------------------
Init ==
  /\ interrupted = FALSE
  /\ interruptPromise = "pending"
  /\ maxFeePerGas = MaxFee
  /\ maxPriorityFeePerGas = MaxPriority
  /\ pc = "idle"
  /\ estimatedGas = Undef
  /\ jsLeft = 0
  /\ signatures = 0
  /\ rollupTxs = [rollupProofTx |-> ProofPayload, offchainDataTxs |-> <<>>]
  /\ txStatuses = <<>>
  /\ nonce = Undef
  /\ i = 0
  /\ options = NoOptions
  /\ baseFeePerGas = Undef
  /\ currentBalance = Undef
  /\ receipt = NoReceipt
  /\ result = "none"
  /\ faults = 0
  /\ startNonce = Undef
  /\ iterLog = <<>>
  /\ callData = Undef
  /\ sentHash = NoHash
  /\ polling = NoHash
  /\ lastSent = <<>>
  /\ okHash = <<>>
  /\ lastPoll = NoPoll
  /\ intrDuring = FALSE
  /\ intrAtEntry = FALSE
  /\ clearAttempted = FALSE
  /\ timer = "off"
  /\ sinceIntr = 0
  /\ running = FALSE
  /\ pending = 0
  /\ active = 0
  /\ count = ZeroCount

config == <<maxFeePerGas, maxPriorityFeePerGas>>
flag == <<interrupted, interruptPromise>>
gateLocals == <<baseFeePerGas, currentBalance>>
ctl == <<pc, result, count, i, options, nonce, iterLog, sentHash, polling,
         timer, sinceIntr, active>>
coord == <<running, pending>>
entry == <<intrAtEntry, clearAttempted>>

\* interrupt() without line 167: the flag is set, the promise is not resolved.
InterruptFlagOnly ==
  /\ interrupted' = TRUE
  /\ interruptPromise' = interruptPromise
  /\ intrDuring' = (intrDuring \/ pc \notin {"idle", "done"})
  /\ clearAttempted' = FALSE
  /\ UNCHANGED <<lastPoll, intrAtEntry, config, coord, ctl, estimatedGas,
                 jsLeft, signatures, rollupTxs, txStatuses, gateLocals,
                 receipt, faults, startNonce, callData, lastSent, okHash>>

\* interrupt(), lines 165-168.
Interrupt ==
  /\ interrupted' = TRUE
  /\ interruptPromise' = "resolved"
  /\ intrDuring' = (intrDuring \/ pc \notin {"idle", "done"})
  /\ clearAttempted' = FALSE
  /\ UNCHANGED <<lastPoll, intrAtEntry, config, coord, ctl, estimatedGas, jsLeft, signatures, rollupTxs,
                 txStatuses, gateLocals, receipt, faults, startNonce,
                 callData, lastSent, okHash>>

\* The caller follows the doc comment of interrupt() (lines 159-164) and
\* calls clearInterrupt() before publishing again. The class (lines 10-212)
\* defines no such member, so the call is a TypeError that leaves the flag
\* and interruptPromise as they are.
ClearInterrupt ==
  /\ pc = "idle"
  /\ interrupted
  /\ ~clearAttempted
  /\ clearAttempted' = TRUE
  /\ UNCHANGED <<lastPoll, intrDuring, intrAtEntry, config, coord, flag, ctl,
                 estimatedGas, jsLeft, signatures, rollupTxs, txStatuses,
                 gateLocals, receipt, faults, startNonce, callData, lastSent,
                 okHash>>

\* StartAccepted accepting every start().
StartAcceptedAlways(r) == TRUE

\* PipelineCoordinator.start() goes ahead only when the coordinator is not
\* running already.
StartAccepted(r) == ~r

\* PipelineCoordinator.start(): refused when already started, which changes
\* nothing; otherwise the coordinator runs and its flow comes to call
\* publishRollup.
CoordinatorStart ==
  /\ IF StartAccepted(running)
       THEN /\ running' = TRUE
            /\ pending' = pending + 1
       ELSE UNCHANGED <<running, pending>>
  /\ UNCHANGED <<lastPoll, intrDuring, entry, config, flag, ctl,
                 estimatedGas, jsLeft, signatures, rollupTxs, txStatuses,
                 gateLocals, receipt, faults, startNonce, callData, lastSent,
                 okHash>>

\* The setTimeout of line 210 fires while the sleep is awaited.
TimerFires ==
  /\ pc \in {"gateSleep", "sendSleep", "receiptSleep", "revertSleep"}
  /\ timer = "pending"
  /\ timer' = "fired"
  /\ UNCHANGED <<lastPoll, intrDuring, entry, config, coord, flag, pc, result, count,
                 i, options, nonce, iterLog, sentHash, polling, sinceIntr, active,
                 estimatedGas, jsLeft, signatures, rollupTxs, txStatuses,
                 gateLocals, receipt, faults, startNonce, callData, lastSent,
                 okHash>>

\* Entry of publishRollup (lines 67-71) up to the first await of createTxData.
Publish ==
  /\ pending > 0
  /\ estimatedGas' = MaxGas
  /\ \E js \in 0..MaxJsTxs :
       /\ jsLeft' = js
       /\ pc' = IF js = 0 THEN "createRollupTxs" ELSE "getUserProofApprovalStatus"
  /\ intrAtEntry' = interrupted
  /\ timer' = "off"
  /\ sinceIntr' = 0
  /\ signatures' = 0
  /\ rollupTxs' = [rollupProofTx |-> ProofPayload, offchainDataTxs |-> <<>>]
  /\ txStatuses' = <<>>
  /\ nonce' = Undef
  /\ i' = 0
  /\ options' = NoOptions
  /\ baseFeePerGas' = Undef
  /\ currentBalance' = Undef
  /\ receipt' = NoReceipt
  /\ result' = "none"
  /\ startNonce' = Undef
  /\ iterLog' = <<>>
  /\ callData' = callData
  /\ sentHash' = sentHash
  /\ polling' = NoHash
  /\ lastSent' = <<>>
  /\ okHash' = <<>>
  /\ lastPoll' = NoPoll
  /\ intrDuring' = FALSE
  /\ count' = ZeroCount
  /\ pending' = pending - 1
  /\ active' = active + 1
  /\ UNCHANGED <<config, flag, faults, clearAttempted, running>>

\* createTxData, lines 176-182: one getUserProofApprovalStatus returns.
GetUserProofApprovalStatus ==
  /\ pc = "getUserProofApprovalStatus"
  /\ \E proofApproval \in BOOLEAN :
       signatures' = IF proofApproval THEN signatures ELSE signatures + 1
  /\ jsLeft' = jsLeft - 1
  /\ pc' = IF jsLeft = 1 THEN "createRollupTxs" ELSE "getUserProofApprovalStatus"
  /\ sinceIntr' = SinceIntrAfter(pc')
  /\ timer' = timer
  /\ active' = active
  /\ UNCHANGED <<lastPoll, intrDuring, entry, config, coord, flag, estimatedGas, rollupTxs, txStatuses, nonce, i,
                 options, gateLocals, receipt, result, faults,
                 startNonce, iterLog, callData, sentHash, polling, lastSent,
                 okHash, count>>

\* createTxData, line 183, then line 73 starts setCallData.
CreateRollupTxs ==
  /\ pc = "createRollupTxs"
  /\ \E k \in 0..MaxBroadcast :
       rollupTxs' = [rollupProofTx |-> ProofPayload,
                     offchainDataTxs |-> [j \in 1..k |-> j]]
  /\ pc' = "setCallData"
  /\ sinceIntr' = SinceIntrAfter(pc')
  /\ timer' = timer
  /\ active' = active
  /\ callData' = CallDataOf(rollupTxs')
  /\ count' = Bump(count, "setCalls")
  /\ signatures' = 0
  /\ UNCHANGED <<lastPoll, intrDuring, entry, config, coord, flag, estimatedGas, jsLeft, txStatuses, nonce, i,
                 options, gateLocals, receipt, result, faults,
                 startNonce, iterLog, sentHash, polling, lastSent, okHash>>

\* setCallData returns; lines 81-90 build the list and start getAccounts.
SetCallData ==
  /\ pc = "setCallData"
  /\ txStatuses' = MakeTxStatuses(rollupTxs)
  /\ lastSent' = [j \in 1..(Len(rollupTxs.offchainDataTxs) + 1) |-> NoHash]
  /\ okHash' = [j \in 1..(Len(rollupTxs.offchainDataTxs) + 1) |-> NoHash]
  /\ pc' = "getAccounts"
  /\ sinceIntr' = SinceIntrAfter(pc')
  /\ timer' = timer
  /\ active' = active
  /\ UNCHANGED <<lastPoll, intrDuring, entry, config, coord, flag, estimatedGas, jsLeft, signatures, rollupTxs,
                 nonce, i, options, gateLocals, receipt, result, faults,
                 startNonce, iterLog, callData, sentHash, polling, count>>

\* getAccounts returns; line 92 and, when not interrupted, line 30-32.
GetAccounts ==
  /\ pc = "getAccounts"
  /\ Apply(MainLoopHead(Cur))
  /\ lastPoll' = NoPoll
  /\ UNCHANGED <<intrDuring, entry, config, coord, flag, estimatedGas, jsLeft, signatures, rollupTxs,
                 txStatuses, gateLocals, receipt, faults, startNonce,
                 callData, lastSent, okHash>>

\* getBlockByNumber returns (line 32); line 35 starts getBalance.
GetBlockByNumber ==
  /\ pc = "getBlockByNumber"
  /\ \E fee \in BaseFees : baseFeePerGas' = fee
  /\ currentBalance' = Undef
  /\ pc' = "getBalance"
  /\ sinceIntr' = SinceIntrAfter(pc')
  /\ timer' = timer
  /\ active' = active
  /\ UNCHANGED <<lastPoll, intrDuring, entry, config, coord, flag, estimatedGas, jsLeft, signatures, rollupTxs,
                 txStatuses, nonce, i, options, receipt, result, faults,
                 startNonce, iterLog, callData, sentHash, polling, lastSent,
                 okHash, count>>

\* getBalance returns (line 35); lines 37-63, then lines 94-98.
GetBalance ==
  /\ pc = "getBalance"
  /\ \E bal \in Balances :
       /\ lastPoll' = [polled |-> TRUE,
                       feeOk |-> baseFeePerGas + maxPriorityFeePerGas <= maxFeePerGas,
                       balanceOk |-> bal >= maxFeePerGas * estimatedGas]
       /\ Apply(AfterGatePoll(Cur, GateVerdict(baseFeePerGas, bal, estimatedGas)))
       /\ IF GateVerdict(baseFeePerGas, bal, estimatedGas) = "clear"
            THEN faults' = faults
            ELSE faults < MaxFaults /\ faults' = faults + 1
       /\ baseFeePerGas' = baseFeePerGas
       /\ currentBalance' = bal
  /\ UNCHANGED <<intrDuring, entry, config, coord, flag, estimatedGas, jsLeft, signatures, rollupTxs,
                 txStatuses, receipt, startNonce,
                 callData, lastSent, okHash>>

\* The sleep of line 52 or 59 resolves; `continue` re-enters the gate loop.
GateSleepWake ==
  /\ pc = "gateSleep"
  /\ SleepOver
  /\ Apply(GateHead(Cur))
  /\ baseFeePerGas' = Undef
  /\ currentBalance' = Undef
  /\ UNCHANGED <<lastPoll, intrDuring, entry, config, coord, flag, estimatedGas, jsLeft, signatures, rollupTxs,
                 txStatuses, receipt, faults, startNonce, callData,
                 lastSent, okHash>>

\* getTransactionCount returns (line 98); the send loop starts.
GetTransactionCount ==
  /\ pc = "getTransactionCount"
  /\ \E n \in 0..MaxNonce :
       /\ startNonce' = n
       /\ Apply(SendLoop([Cur EXCEPT !.nonce = n, !.iterLog = <<>>], txStatuses, 1))
  /\ baseFeePerGas' = Undef
  /\ currentBalance' = Undef
  /\ UNCHANGED <<lastPoll, intrDuring, entry, config, coord, flag, estimatedGas, jsLeft, signatures, rollupTxs,
                 txStatuses, receipt, faults, callData,
                 lastSent, okHash>>

\* blockchain.sendTx returns a hash (line 189, assigned at line 107).
SendTxReturns ==
  /\ pc = "sendTx"
  /\ LET h == NewHash(count)
           st == SetTxHash(txStatuses, i, h)
           c == [Cur EXCEPT !.iterLog = Append(@, [ev |-> "hash", i |-> i,
                                                  nonce |-> options.nonce,
                                                  hash |-> h])]
       IN /\ txStatuses' = st
          /\ lastSent' = [lastSent EXCEPT ![i] = h]
          /\ Apply(SendLoop(c, st, i + 1))
  /\ UNCHANGED <<lastPoll, intrDuring, entry, config, coord, flag, estimatedGas, jsLeft, signatures, rollupTxs,
                 gateLocals, receipt, faults, startNonce, callData,
                 okHash>>

\* blockchain.sendTx raises (lines 190-193): the sleep starts.
SendTxThrows ==
  /\ pc = "sendTx"
  /\ faults < MaxFaults
  /\ faults' = faults + 1
  /\ Apply(StartSleep([Cur EXCEPT !.iterLog =
                          Append(@, [ev |-> "error", i |-> i,
                                     nonce |-> options.nonce, hash |-> NoHash])],
                      "sendSleep"))
  /\ UNCHANGED <<lastPoll, intrDuring, entry, config, coord, flag, estimatedGas, jsLeft, signatures, rollupTxs,
                 txStatuses, gateLocals, receipt, startNonce, callData,
                 lastSent, okHash>>

\* The sleep of line 193 resolves; line 187 either re-sends with the same
\* options or, when interrupted, this.sendTx returns undefined into txHash.
SendSleepWake ==
  /\ pc = "sendSleep"
  /\ SleepOver
  /\ IF interrupted
       THEN LET st == SetTxHash(txStatuses, i, NoHash) IN
            /\ txStatuses' = st
            /\ Apply(SendLoop(Cur, st, i + 1))
       ELSE /\ txStatuses' = txStatuses
            /\ Apply(RetrySendTx(Cur))
  /\ UNCHANGED <<lastPoll, intrDuring, entry, config, coord, flag, estimatedGas, jsLeft, signatures, rollupTxs,
                 gateLocals, receipt, faults, startNonce, callData,
                 lastSent, okHash>>

\* confirmSent returns (line 118); the receipt loop starts.
ConfirmSent ==
  /\ pc = "confirmSent"
  /\ Apply(ReceiptLoop(Cur, txStatuses, 1))
  /\ UNCHANGED <<lastPoll, intrDuring, entry, config, coord, flag, estimatedGas, jsLeft, signatures, rollupTxs,
                 txStatuses, gateLocals, receipt, faults, startNonce,
                 callData, lastSent, okHash>>

\* getTransactionReceiptSafe returns null: line 128.
ReceiptTimesOut ==
  /\ pc = "getTransactionReceipt"
  /\ receipt' = NoReceipt
  /\ Apply(AfterNoReceipt(Cur))
  /\ UNCHANGED <<lastPoll, intrDuring, entry, config, coord, flag, estimatedGas, jsLeft, signatures, rollupTxs,
                 txStatuses, gateLocals, faults, startNonce, callData,
                 lastSent, okHash>>

\* getTransactionReceiptSafe returns a receipt: lines 130-148.
ReceiptReturns ==
  /\ pc = "getTransactionReceipt"
  /\ \E r \in Receipts :
       /\ receipt' = r
       /\ IF r.status
            THEN LET st == [txStatuses EXCEPT ![i].success = TRUE] IN
                 /\ txStatuses' = st
                 /\ okHash' = [okHash EXCEPT ![i] = polling]
                 /\ faults' = faults
                 /\ Apply(ReceiptLoop(Cur, st, i + 1))
            ELSE /\ txStatuses' = txStatuses
                 /\ okHash' = okHash
                 /\ Apply(AfterFailedReceipt(Cur, r))
                 /\ IF AfterFailedReceipt(Cur, r).pc = "done"
                      THEN faults' = faults
                      ELSE faults < MaxFaults /\ faults' = faults + 1
  /\ UNCHANGED <<lastPoll, intrDuring, entry, config, coord, flag, estimatedGas, jsLeft, signatures, rollupTxs,
                 gateLocals, startNonce, callData, lastSent>>

\* getTransactionReceiptSafe raises (lines 202-204): the sleep starts.
ReceiptThrows ==
  /\ pc = "getTransactionReceipt"
  /\ faults < MaxFaults
  /\ faults' = faults + 1
  /\ Apply(StartSleep([Cur EXCEPT !.count = Bump(@, "fetchErrors")],
                      "receiptSleep"))
  /\ UNCHANGED <<lastPoll, intrDuring, entry, config, coord, flag, estimatedGas, jsLeft, signatures, rollupTxs,
                 txStatuses, gateLocals, receipt, startNonce, callData,
                 lastSent, okHash>>

\* The sleep of line 204 resolves; line 199 either fetches again or, when
\* interrupted, returns undefined and line 128 returns false.
ReceiptSleepWake ==
  /\ pc = "receiptSleep"
  /\ SleepOver
  /\ Apply(RetryReceipt(Cur))
  /\ UNCHANGED <<lastPoll, intrDuring, entry, config, coord, flag, estimatedGas, jsLeft, signatures, rollupTxs,
                 txStatuses, gateLocals, receipt, faults, startNonce,
                 callData, lastSent, okHash>>

\* The sleep of line 143 resolves; `continue mainLoop`.
RevertSleepWake ==
  /\ pc = "revertSleep"
  /\ SleepOver
  /\ Apply(MainLoopHead(Cur))
  /\ lastPoll' = NoPoll
  /\ receipt' = NoReceipt
  /\ UNCHANGED <<intrDuring, entry, config, coord, flag, estimatedGas, jsLeft, signatures, rollupTxs,
                 txStatuses, gateLocals, faults, startNonce, callData,
                 lastSent, okHash>>

\* An await outside any try block rejects: publishRollup rejects.
UncaughtAwaits == {"getUserProofApprovalStatus", "createRollupTxs", "setCallData",
                   "getAccounts", "getBlockByNumber", "getBalance",
                   "getTransactionCount", "confirmSent"}

CollaboratorThrows ==
  /\ pc \in UncaughtAwaits
  /\ Apply(Return(Cur, "threw"))
  /\ UNCHANGED <<lastPoll, intrDuring, entry, config, coord, flag, estimatedGas, jsLeft, signatures, rollupTxs,
                 txStatuses, gateLocals, receipt, faults, startNonce,
                 callData, lastSent, okHash>>

Next ==
  \/ CoordinatorStart
  \/ Interrupt
  \/ ClearInterrupt
  \/ TimerFires
  \/ Publish
  \/ GetUserProofApprovalStatus
  \/ CreateRollupTxs
  \/ SetCallData
  \/ GetAccounts
  \/ GetBlockByNumber
  \/ GetBalance
  \/ GateSleepWake
  \/ GetTransactionCount
  \/ SendTxReturns
  \/ SendTxThrows
  \/ SendSleepWake
  \/ ConfirmSent
  \/ ReceiptTimesOut
  \/ ReceiptReturns
  \/ ReceiptThrows
  \/ ReceiptSleepWake
  \/ RevertSleepWake
  \/ CollaboratorThrows

Spec == Init /\ [][Next]_vars

\* The steps of publishRollup itself: an awaited collaborator call returns
\* or raises, or a sleep whose race is decided resolves, and the code runs
\* on to its next await.
PublisherStep ==
  \/ GetUserProofApprovalStatus
  \/ CreateRollupTxs
  \/ SetCallData
  \/ GetAccounts
  \/ GetBlockByNumber
  \/ GetBalance
  \/ GateSleepWake
  \/ GetTransactionCount
  \/ SendTxReturns
  \/ SendTxThrows
  \/ SendSleepWake
  \/ ConfirmSent
  \/ ReceiptTimesOut
  \/ ReceiptReturns
  \/ ReceiptThrows
  \/ ReceiptSleepWake
  \/ RevertSleepWake
  \/ CollaboratorThrows

\* Every collaborator call eventually returns or raises and the event
\* loop runs every continuation that is ready; nothing is assumed of timers.
LiveSpec == Spec /\ WF_vars(PublisherStep)

\* As LiveSpec, and every timer that was set eventually fires.
FairSpec == Spec /\ WF_vars(PublisherStep) /\ WF_vars(TimerFires)

----------------------------------------------------------------------------
\* The gate on its own, for every configuration: publishRollup, called with
\* any estimatedGas on a publisher constructed with any fee ceiling and
\* priority fee, has built a batch without broadcast data and is starting
\* the first gate poll of its first outer iteration.
GateInit ==
  /\ interrupted = FALSE
  /\ interruptPromise = "pending"
  /\ maxFeePerGas \in 1..MaxFee
  /\ maxPriorityFeePerGas \in 0..MaxPriority
  /\ pc = "getBlockByNumber"
  /\ estimatedGas \in 1..MaxGas
  /\ jsLeft = 0
  /\ signatures = 0
  /\ rollupTxs = [rollupProofTx |-> ProofPayload, offchainDataTxs |-> <<>>]
  /\ txStatuses = MakeTxStatuses(rollupTxs)
  /\ nonce = Undef
  /\ i = 0
  /\ options = NoOptions
  /\ baseFeePerGas = Undef
  /\ currentBalance = Undef
  /\ receipt = NoReceipt
  /\ result = "none"
  /\ faults = 0
  /\ startNonce = Undef
  /\ iterLog = <<>>
  /\ callData = ProofPayload
  /\ sentHash = NoHash
  /\ polling = NoHash
  /\ lastSent = <<NoHash>>
  /\ okHash = <<NoHash>>
  /\ lastPoll = NoPoll
  /\ intrDuring = FALSE
  /\ intrAtEntry = FALSE
  /\ clearAttempted = FALSE
  /\ timer = "off"
  /\ sinceIntr = 0
  /\ running = TRUE
  /\ pending = 0
  /\ active = 1
  /\ count = [ZeroCount EXCEPT !.setCalls = 1, !.iters = 1, !.polls = 1]

GateNext ==
  \/ Interrupt
  \/ TimerFires
  \/ GetBlockByNumber
  \/ GetBalance
  \/ GateSleepWake

GateSpec == GateInit /\ [][GateNext]_vars

----------------------------------------------------------------------------
\* Helpers of the properties.
IsProof(j) == txStatuses[j].name[1] = "rollup proof"
IsBroadcast(j) == txStatuses[j].name[1] = "broadcast data"
CallsIn(log) == {p \in 1..Len(log) : log[p].ev = "call"}
\* A step in which a blockchain.sendTx call starts.
SendStarts == count'.sends = count.sends + 1

\* C1: in every outer iteration the nonces passed to sendTx are n, n+1, ...
\* in list order, n being the value getTransactionCount returned in that
\* iteration: each call carries n plus the number of entries sent before its
\* entry; with zero broadcast transactions the proof is sent with nonce n.
C1_ContiguousNonces ==
  /\ \A p \in CallsIn(iterLog) :
       /\ iterLog[p].nonce =
            startNonce + Cardinality({iterLog[q].i : q \in CallsIn(iterLog) \cap 1..p}) - 1
       /\ \A q \in CallsIn(iterLog) \cap 1..p : iterLog[q].i <= iterLog[p].i
  /\ pc \in {"sendTx", "sendSleep"} => iterLog # <<>> /\ options.nonce = iterLog[Len(iterLog)].nonce
  /\ Len(txStatuses) = 1 => \A p \in CallsIn(iterLog) : iterLog[p].nonce = startNonce

\* C1 witness: a retry iteration that skipped a confirmed entry and sends the
\* second of its entries with the fetched nonce plus one.
C1_Witness ==
  /\ count.iters = 2
  /\ Len(txStatuses) = 3
  /\ txStatuses[1].success
  /\ pc = "sendTx" /\ i = 3
  /\ options.nonce = startNonce + 1
  /\ Cardinality(CallsIn(iterLog)) = 2

\* C2: within an outer iteration every broadcast transaction sent in it has
\* obtained its hash before the rollup-proof transaction's sendTx call
\* starts, and the proof's nonce is greater than every broadcast nonce.
C2_BroadcastBeforeProof ==
  \A q \in CallsIn(iterLog) : IsProof(iterLog[q].i) =>
    \A p \in CallsIn(iterLog) : IsBroadcast(iterLog[p].i) =>
      /\ p < q
      /\ iterLog[p].nonce < iterLog[q].nonce
      /\ \E r \in (p + 1)..(q - 1) :
           iterLog[r].ev = "hash" /\ iterLog[r].i = iterLog[p].i

\* C2 witness: the proof's sendTx call is in progress after two broadcast
\* transactions were sent in the same iteration.
C2_Witness ==
  /\ pc = "sendTx" /\ IsProof(i)
  /\ Cardinality({iterLog[p].i : p \in CallsIn(iterLog)}) = 3

\* C3: once an entry is confirmed (success = true), no later sendTx call of
\* the same publishRollup call carries that entry's payload.
C3_ConfirmedNeverResent ==
  [][SendStarts =>
       \A j \in 1..Len(txStatuses) :
         txStatuses[j].success => txStatuses[i'].tx # txStatuses[j].tx]_vars

\* C3 witness: a send in a retry iteration while an entry is confirmed.
C3_Witness ==
  /\ count.iters >= 2
  /\ pc = "sendTx"
  /\ \E j \in 1..Len(txStatuses) : txStatuses[j].success

\* C4: when publishRollup returns true every entry is confirmed: a receipt
\* with status = true was obtained for the hash of its most recent send.
C4_PublishedAllConfirmed ==
  result = "true" =>
    \A j \in 1..Len(txStatuses) :
      /\ txStatuses[j].success
      /\ txStatuses[j].txHash # NoHash
      /\ txStatuses[j].txHash = lastSent[j]
      /\ okHash[j] = lastSent[j]

\* C4 witness: a publish of three transactions returned true after a retry.
C4_Witness ==
  /\ result = "true"
  /\ Len(txStatuses) = 3
  /\ count.iters = 2


\* C5 (as claimed): a publishRollup call during which interrupt() ran never
\* returns true.
C5_InterruptNeverPublished == intrDuring => result # "true"

\* C6 (as claimed): publishRollup never raises to its caller, whichever
\* collaborator call fails.
C6_NeverRaises == result # "threw"

\* C7: no nonce is fetched and no sendTx call is started in an outer
\* iteration unless the latest gate poll of that iteration observed both
\* baseFee + maxPriorityFeePerGas <= maxFeePerGas and
\* balance >= maxFeePerGas * estimatedGas; after a poll on which either
\* fails the publisher is sleeping, polling again or has returned.
C7_GateBeforeSend ==
  /\ pc \in {"getTransactionCount", "sendTx", "sendSleep"} =>
       lastPoll.polled /\ lastPoll.feeOk /\ lastPoll.balanceOk
  /\ (lastPoll.polled /\ ~(lastPoll.feeOk /\ lastPoll.balanceOk)) =>
       /\ pc \in {"gateSleep", "getBlockByNumber", "getBalance", "done"}
       /\ count.sends = 0 \/ count.iters > 1
       /\ iterLog = <<>> \/ count.iters > 1

\* C7 witness: a send in progress after an earlier poll of the same
\* iteration had failed.
C7_Witness ==
  /\ pc = "sendTx"
  /\ count.iters = 1
  /\ count.polls = 2

\* C8: a gate poll clears exactly when baseFee + maxPriorityFeePerGas <=
\* maxFeePerGas and balance >= maxFeePerGas * estimatedGas (so it clears at
\* equality of either and waits one unit beyond it).
C8_GateClearsExactly ==
  currentBalance # Undef =>
    ((pc # "gateSleep") <=>
       /\ baseFeePerGas + maxPriorityFeePerGas <= maxFeePerGas
       /\ currentBalance >= maxFeePerGas * estimatedGas)

\* C8 witness: the gate has cleared with both conditions at equality.
C8_Witness ==
  /\ pc = "getTransactionCount"
  /\ maxPriorityFeePerGas > 0 /\ estimatedGas > 1
  /\ baseFeePerGas = maxFeePerGas - maxPriorityFeePerGas
  /\ currentBalance = maxFeePerGas * estimatedGas

\* C9: a receipt with status = false and revert name INCORRECT_STATE_HASH,
\* for any entry, makes publishRollup return false in that step with no
\* further sendTx call, sleep, receipt fetch or outer iteration; a call that
\* has returned does nothing more.
C9_FatalRevertAborts ==
  [][/\ (pc = "getTransactionReceipt" /\ pc' # pc /\ receipt'.got
          /\ ~receipt'.status /\ receipt'.revertError = "INCORRECT_STATE_HASH")
         => (pc' = "done" /\ result' = "false" /\ count' = count
             /\ txStatuses' = txStatuses)
     /\ pc = "done" => (pc' = "done" /\ count' = count /\ result' = result)]_vars

\* C9 witness: publishRollup returned false on a fatal revert of a
\* broadcast transaction.
C9_Witness ==
  /\ pc = "done" /\ result = "false"
  /\ receipt.got /\ ~receipt.status
  /\ receipt.revertError = "INCORRECT_STATE_HASH"
  /\ IsBroadcast(i)

\* A step in which a receipt with status = false and a revert reason other
\* than INCORRECT_STATE_HASH (or none) arrives.
NonFatalRevertArrives ==
  /\ pc = "getTransactionReceipt" /\ pc' # pc
  /\ receipt'.got /\ ~receipt'.status
  /\ receipt'.revertError # "INCORRECT_STATE_HASH"

\* C10: on a receipt with status = false and any revert reason other than
\* INCORRECT_STATE_HASH (or none) the entry stays unconfirmed and exactly one
\* sleep starts, with no further receipt fetch; when the sleep ends the call
\* returns false if interrupted and otherwise starts a new outer iteration
\* with a gate poll; a nonce is fetched only after a gate poll, and a send
\* starts only after the nonce fetch of its iteration.
C10_NonFatalRevertRetries ==
  [][/\ NonFatalRevertArrives =>
          /\ pc' = "revertSleep"
          /\ txStatuses' = txStatuses /\ ~txStatuses'[i].success
          /\ count' = Bump(count, "sleeps")
     /\ (pc = "revertSleep" /\ pc' # pc) =>
          IF interrupted
            THEN pc' = "done" /\ result' = "false" /\ count' = count
            ELSE /\ pc' = "getBlockByNumber"
                 /\ count' = Bump(Bump(count, "iters"), "polls")
     /\ (pc' = "getTransactionCount" /\ pc' # pc) => pc = "getBalance"
     /\ SendStarts => pc \in {"getTransactionCount", "sendTx", "sendSleep"}]_vars

\* C10 witness: after a non-fatal revert of the first entry and one sleep,
\* the second outer iteration has passed the gate and is fetching the nonce.
C10_Witness ==
  /\ pc = "getTransactionCount"
  /\ count.iters = 2
  /\ count.sleeps = 1
  /\ ~interrupted
  /\ ~txStatuses[1].success

\* The send phase of an outer iteration: no success flag changes in it.
InSendPhase == pc \in {"sendTx", "sendSleep", "confirmSent"}

\* The first sendTx call of the current outer iteration, 0 if none.
FirstCall ==
  IF CallsIn(iterLog) = {} THEN 0
  ELSE CHOOSE p \in CallsIn(iterLog) : \A q \in CallsIn(iterLog) : p <= q

\* C11: in an outer iteration no confirmed entry is sent; the first entry
\* sent is the first unconfirmed entry of the list and it carries exactly
\* the value getTransactionCount returned in that iteration; when every
\* broadcast entry is confirmed the iteration sends only the proof, with
\* that freshly fetched value.
C11_SkippedEntriesSpendNoNonce ==
  /\ FirstCall # 0 => iterLog[FirstCall].nonce = startNonce
  /\ InSendPhase =>
       /\ \A p \in CallsIn(iterLog) : ~txStatuses[iterLog[p].i].success
       /\ FirstCall # 0 =>
            \A j \in 1..(iterLog[FirstCall].i - 1) : txStatuses[j].success
       /\ (\A j \in 1..Len(txStatuses) : IsBroadcast(j) => txStatuses[j].success)
            => \A p \in CallsIn(iterLog) :
                 IsProof(iterLog[p].i) /\ iterLog[p].nonce = startNonce

\* C11 witness: both broadcast entries are confirmed, the proof was not, and
\* the retry iteration sends the proof alone with the fetched nonce.
C11_Witness ==
  /\ count.iters = 2
  /\ Len(txStatuses) = 3
  /\ txStatuses[1].success /\ txStatuses[2].success
  /\ pc = "confirmSent"
  /\ Cardinality(CallsIn(iterLog)) = 1
  /\ iterLog[FirstCall].i = 3
  /\ iterLog[FirstCall].nonce = startNonce

\* C12: a publishRollup call without interrupt in which no collaborator
\* raises, no poll times out and every receipt has status true makes one
\* sendTx call and one receipt fetch per entry (N + 1 each), one gate poll,
\* one outer iteration, exactly one confirmSent call carrying the hash of
\* the proof transaction, no sleep, stops the timer once and returns true;
\* with such collaborators and a successful last receipt only an interrupt
\* keeps the call from returning true.
C12_HappyPathCounts ==
  /\ (result = "true" /\ faults = 0 /\ ~intrDuring) =>
       /\ count.sends = Len(txStatuses)
       /\ count.receipts = Len(txStatuses)
       /\ count.confirms = 1
       /\ sentHash = lastSent[Len(txStatuses)]
       /\ sentHash = txStatuses[Len(txStatuses)].txHash
       /\ IsProof(Len(txStatuses))
       /\ sentHash # NoHash
       /\ count.sleeps = 0
       /\ count.iters = 1 /\ count.polls = 1
       /\ count.timerStops = 1
       /\ count.timeouts = 0 /\ count.fetchErrors = 0
  /\ (pc = "done" /\ faults = 0 /\ ~interrupted /\ receipt.got /\ receipt.status
        /\ count.receipts = Len(txStatuses))
       => result = "true"

\* C12 witness: a batch of two broadcast transactions and the proof was
\* published in one pass.
C12_Witness ==
  /\ pc = "done" /\ result = "true"
  /\ faults = 0 /\ ~interrupted
  /\ Len(txStatuses) = 3
  /\ count.sends = 3 /\ count.receipts = 3 /\ count.confirms = 1
  /\ count.sleeps = 0

\* C13: when blockchain.sendTx raises, exactly one sleep starts and nothing
\* else; when the sleep ends the same entry is sent again with the same
\* nonce and the same fee options, unless the interrupt flag is set, in
\* which case the call returns false; no other entry is sent and the nonce
\* does not advance in between.
C13_SendErrorRetriesSameEntry ==
  [][/\ (pc = "sendTx" /\ pc' = "sendSleep") =>
          /\ count' = Bump(count, "sleeps")
          /\ i' = i /\ options' = options /\ nonce' = nonce
          /\ txStatuses' = txStatuses
     /\ (pc = "sendSleep" /\ pc' # pc) =>
          IF interrupted
            THEN pc' = "done" /\ result' = "false" /\ count' = count
            ELSE /\ pc' = "sendTx"
                 /\ i' = i /\ options' = options /\ nonce' = nonce
                 /\ count' = Bump(count, "sends")
                 /\ txStatuses' = txStatuses]_vars

\* C13 witness: the first of several entries is being sent a second time
\* after one error and one sleep, with the nonce it had the first time.
C13_Witness ==
  /\ pc = "sendTx" /\ i = 1 /\ Len(txStatuses) >= 2
  /\ count.sends = 2 /\ count.sleeps = 1
  /\ Len(iterLog) = 3
  /\ iterLog[2].ev = "error"
  /\ iterLog[3].ev = "call" /\ iterLog[3].i = 1
  /\ iterLog[3].nonce = iterLog[1].nonce
  /\ nonce = startNonce + 1

\* A step in which getTransactionReceiptSafe returns no receipt (null): the
\* poll timed out, or the client met an error it did not raise.
NoReceiptReturned ==
  pc = "getTransactionReceipt" /\ count'.timeouts = count.timeouts + 1

\* A step in which getTransactionReceiptSafe raises an error.
ReceiptFetchRaises ==
  pc = "getTransactionReceipt" /\ count'.fetchErrors = count.fetchErrors + 1

\* C14: when a receipt fetch returns no receipt for an unconfirmed entry,
\* whatever made the chain client return none, publishRollup returns false
\* at once: no further send, receipt fetch, sleep, confirmSent or outer
\* iteration, and the entry stays unconfirmed.
C14_NoReceiptAborts ==
  [][NoReceiptReturned =>
        /\ pc' = "done" /\ result' = "false"
        /\ count' = Bump(count, "timeouts")
        /\ txStatuses' = txStatuses /\ ~txStatuses'[i].success]_vars

\* C14 witness: the receipt poll of the second entry timed out after the
\* first entry had been confirmed, and the call returned false.
C14_Witness ==
  /\ pc = "done" /\ result = "false"
  /\ count.timeouts = 1
  /\ i = 2 /\ txStatuses[1].success /\ ~txStatuses[2].success
  /\ receipt = NoReceipt
  /\ ~interrupted

\* C15: when getTransactionReceiptSafe raises, exactly one sleep starts;
\* when the sleep ends the receipt of the same hash is fetched again, with
\* no sendTx call and no return in between, unless the interrupt flag is
\* set, in which case the call returns false.
C15_ReceiptErrorRetriesFetch ==
  [][/\ ReceiptFetchRaises =>
          /\ pc' = "receiptSleep"
          /\ count' = Bump(Bump(count, "sleeps"), "fetchErrors")
          /\ polling' = polling /\ i' = i
          /\ txStatuses' = txStatuses /\ result' = "none"
     /\ (pc = "receiptSleep" /\ pc' # pc) =>
          IF interrupted
            THEN pc' = "done" /\ result' = "false" /\ count' = count
            ELSE /\ pc' = "getTransactionReceipt"
                 /\ polling' = polling /\ i' = i
                 /\ polling' = txStatuses[i].txHash
                 /\ count' = Bump(count, "receipts")
                 /\ txStatuses' = txStatuses /\ result' = "none"]_vars

\* C15 witness: after one raised fetch and one sleep the receipt of the same
\* hash is being fetched a second time, with no send in between.
C15_Witness ==
  /\ pc = "getTransactionReceipt"
  /\ count.fetchErrors = 1 /\ count.sleeps = 1
  /\ count.receipts = 2 /\ count.sends = Len(txStatuses)
  /\ i = 1 /\ polling = txStatuses[1].txHash
  /\ ~interrupted

\* What a call that began with the flag set never does: no gate poll, no
\* outer iteration, no nonce fetch, no send, no receipt fetch, no sleep, no
\* confirmSent, and no return of true.
ShortCircuited ==
  /\ count.polls = 0 /\ count.iters = 0
  /\ startNonce = Undef
  /\ count.sends = 0 /\ count.receipts = 0
  /\ count.sleeps = 0 /\ count.confirms = 0
  /\ lastPoll = NoPoll
  /\ result # "true"

\* C16 (as claimed): a publishRollup call that begins with the interrupt
\* flag set performs no gate poll, nonce fetch, send or receipt fetch and
\* writes nothing to the rollup database: neither setCallData nor
\* confirmSent.
C16_InterruptedCallDoesNothing ==
  intrAtEntry => (ShortCircuited /\ count.setCalls = 0 /\ callData = Undef)

\* C16 (amended): a publishRollup call that begins with the interrupt flag
\* set performs no gate poll, nonce fetch, send, receipt fetch or
\* confirmSent and never returns true; it does build the batch and write it
\* with setCallData before it tests the flag.
C16_InterruptedCallNeverEntersLoop ==
  /\ intrAtEntry => ShortCircuited
  /\ (intrAtEntry /\ result = "false") =>
       (count.setCalls = 1 /\ callData = rollupTxs.rollupProofTx)

\* C16 witness: a call begun with the flag set returned false after writing
\* the call data.
C16_Witness ==
  /\ intrAtEntry
  /\ pc = "done" /\ result = "false"
  /\ count.setCalls = 1
  /\ Len(txStatuses) = 3

\* C17 (as claimed): after interrupt() followed by clearInterrupt() the
\* publisher is back in RUNNING: the flag is down and interruptPromise is
\* pending again, so the next publishRollup enters its main loop and polls
\* the gate instead of returning at once.
C17_ClearInterruptRestoresRunning ==
  /\ clearAttempted => (~interrupted /\ interruptPromise = "pending")
  /\ (clearAttempted /\ pc = "done" /\ result # "threw") => count.iters >= 1

\* C18: a gate sleep is over as soon as interrupt() has run, whether or not
\* its timer has fired; when it ends with the flag set the gate polls no
\* more and publishRollup returns false with no nonce fetch, no send and no
\* confirmSent after the interrupt.
C18_InterruptEndsGateSleep ==
  [][/\ (pc = "gateSleep" /\ interrupted) => ENABLED GateSleepWake
     /\ (pc = "gateSleep" /\ interrupted /\ pc' # pc) =>
          /\ pc' = "done" /\ result' = "false"
          /\ count' = count
          /\ startNonce' = startNonce /\ sentHash' = sentHash
          /\ timer' = timer]_vars

\* C18 witness: the first gate poll failed, interrupt() ran during the
\* sleep, and the call returned false with the timer still pending and
\* nothing fetched, sent or recorded.
C18_Witness ==
  /\ pc = "done" /\ result = "false"
  /\ intrDuring /\ timer = "pending"
  /\ lastPoll.polled /\ ~(lastPoll.feeOk /\ lastPoll.balanceOk)
  /\ count.polls = 1 /\ count.sleeps = 1
  /\ startNonce = Undef
  /\ count.sends = 0 /\ count.confirms = 0

\* C19 (as claimed): once interrupt() has run during a publishRollup call,
\* the call starts at most one further chain-client call before it returns,
\* wherever the interrupt arrived.
C19_ReturnsWithinOneTick == sinceIntr <= 1

\* C20: setCallData is called at most once in a publishRollup call, and
\* exactly once in every call that gets past batch construction; it has
\* completed before the first sendTx call starts; its payload is the
\* rollupProofTx of the batch, which is the payload of the proof entry and
\* no other entry.
C20_CallDataBeforeSend ==
  /\ count.setCalls <= 1
  /\ (pc \notin {"idle", "getUserProofApprovalStatus", "createRollupTxs", "done"}
        \/ result \in {"true", "false"}) => count.setCalls = 1
  /\ count.sends > 0 =>
       /\ count.setCalls = 1
       /\ pc \notin {"getUserProofApprovalStatus", "createRollupTxs", "setCallData"}
  /\ count.setCalls = 1 =>
       /\ callData = rollupTxs.rollupProofTx
       /\ \A j \in 1..Len(txStatuses) : IsProof(j) <=> txStatuses[j].tx = callData
  /\ count.setCalls = 0 => (callData = Undef /\ count.sends = 0)

\* C20 witness: the proof entry of a three-entry batch is being sent with
\* the payload that setCallData wrote.
C20_Witness ==
  /\ pc = "sendTx" /\ i = 3 /\ Len(txStatuses) = 3
  /\ IsProof(i)
  /\ count.setCalls = 1
  /\ txStatuses[i].tx = callData

\* The awaits that are sleeps.
SleepPcs == {"gateSleep", "sendSleep", "receiptSleep", "revertSleep"}

\* C21: confirmSent is called only from the end of the send loop, in a
\* state where every entry of the status list holds a transaction hash; its
\* argument is the hash stored on the last entry, which is the rollup-proof
\* entry; no receipt is fetched in an outer iteration before its confirmSent
\* call has returned.
C21_ConfirmSentAfterAllHashes ==
  [][/\ (count'.confirms = count.confirms + 1) =>
          /\ pc \in {"getTransactionCount", "sendTx", "sendSleep"}
          /\ pc' = "confirmSent"
          /\ \A j \in 1..Len(txStatuses') : txStatuses'[j].txHash # NoHash
          /\ sentHash' = txStatuses'[Len(txStatuses')].txHash
          /\ txStatuses'[Len(txStatuses')].name[1] = "rollup proof"
          /\ count'.receipts = count.receipts
     /\ (count'.receipts = count.receipts + 1) =>
          pc \in {"confirmSent", "getTransactionReceipt", "receiptSleep"}
     /\ (pc' = "confirmSent" /\ pc # "confirmSent") =>
          count'.confirms = count.confirms + 1
     /\ pc = "confirmSent" =>
          /\ pc' \in {"confirmSent", "getTransactionReceipt", "done"}
          /\ sentHash' = sentHash /\ txStatuses' = txStatuses]_vars

\* C21 witness: confirmSent of a retry iteration is in flight with the hash
\* the proof entry got in that iteration.
C21_Witness ==
  /\ pc = "confirmSent"
  /\ count.confirms = 2
  /\ Len(txStatuses) = 2
  /\ sentHash = txStatuses[2].txHash
  /\ iterLog # <<>> /\ iterLog[Len(iterLog)].ev = "hash"
  /\ sentHash = iterLog[Len(iterLog)].hash
  /\ \A j \in 1..2 : txStatuses[j].txHash # NoHash

\* C23: every wait is a sleepOrInterrupted: it starts a timer raced against
\* interruptPromise, which interrupt() resolves together with the flag; in
\* each of the five waits the sleep can end as soon as the promise is
\* resolved, whether it was resolved before or after the sleep started, and
\* a sleep ends with its timer still pending only when interrupted.
C23_EveryWaitCancellable ==
  [][/\ interrupted <=> interruptPromise = "resolved"
     /\ (count'.sleeps = count.sleeps + 1) =>
          (pc' \in SleepPcs /\ pc \notin SleepPcs /\ timer' = "pending")
     /\ (pc' \in SleepPcs /\ pc \notin SleepPcs) => count'.sleeps = count.sleeps + 1
     /\ (pc = "gateSleep" /\ interrupted) => ENABLED GateSleepWake
     /\ (pc = "sendSleep" /\ interrupted) => ENABLED SendSleepWake
     /\ (pc = "receiptSleep" /\ interrupted) => ENABLED ReceiptSleepWake
     /\ (pc = "revertSleep" /\ interrupted) => ENABLED RevertSleepWake
     /\ (pc \in SleepPcs /\ pc' # pc /\ timer = "pending") => interrupted]_vars

\* C23 witness: a send-error backoff was ended by interrupt() with its timer
\* still pending, and the call returned false.
C23_Witness ==
  /\ pc = "done" /\ result = "false"
  /\ interrupted /\ timer = "pending"
  /\ count.sleeps = 1
  /\ iterLog # <<>> /\ iterLog[Len(iterLog)].ev = "error"

\* The first outer iteration before any send, in a call that was not
\* interrupted.
FirstGate ==
  count.iters = 1 /\ count.sends = 0 /\ ~intrDuring /\ ~intrAtEntry

\* C24: in the gate of an uninterrupted call, after k failing polls there
\* have been exactly k sleeps, one per failing poll even when both
\* conditions failed, and the poll in progress is poll k + 1, for which the
\* base fee is fetched again before the balance; the nonce is fetched only
\* when poll k + 1 has cleared, and no sendTx call starts before that.
C24_GatePollsAndSleeps ==
  FirstGate =>
    /\ pc \in {"getBlockByNumber", "getBalance", "gateSleep",
               "getTransactionCount", "done"}
    /\ pc \in {"getBlockByNumber", "getBalance", "getTransactionCount"} =>
         (count.polls = faults + 1 /\ count.sleeps = faults)
    /\ pc = "gateSleep" =>
         /\ count.polls = faults /\ count.sleeps = faults
         /\ lastPoll.polled /\ ~(lastPoll.feeOk /\ lastPoll.balanceOk)
    /\ pc = "getBlockByNumber" => (baseFeePerGas = Undef /\ currentBalance = Undef)
    /\ pc = "getBalance" => (baseFeePerGas # Undef /\ currentBalance = Undef)
    /\ pc = "getTransactionCount" =>
         (lastPoll.polled /\ lastPoll.feeOk /\ lastPoll.balanceOk)

\* C24 witness: the gate failed twice and cleared on the third poll after
\* two sleeps, with nothing sent.
C24_Witness ==
  /\ FirstGate
  /\ pc = "getTransactionCount"
  /\ faults = 2
  /\ count.polls = 3 /\ count.sleeps = 2
  /\ count.sends = 0

\* C25: once built, the status list keeps its length, and each entry its
\* payload and name: the broadcast transactions in original order, the
\* rollup proof last; a txHash changes only in the send phase, on the entry
\* being sent; a success flag changes only when a receipt arrives, on the
\* entry being polled, and only from false to true.
C25_StatusListFrame ==
  [][txStatuses # <<>> =>
       /\ Len(txStatuses') = Len(txStatuses)
       /\ Len(txStatuses) = Len(rollupTxs.offchainDataTxs) + 1
       /\ \A j \in 1..Len(txStatuses) :
            /\ txStatuses'[j].tx = txStatuses[j].tx
            /\ txStatuses'[j].name = txStatuses[j].name
            /\ txStatuses[j].tx =
                 IF j < Len(txStatuses) THEN rollupTxs.offchainDataTxs[j]
                 ELSE rollupTxs.rollupProofTx
            /\ IsProof(j) <=> j = Len(txStatuses)
            /\ txStatuses'[j].txHash # txStatuses[j].txHash =>
                 (pc \in {"sendTx", "sendSleep"} /\ j = i)
            /\ txStatuses'[j].success # txStatuses[j].success =>
                 /\ pc = "getTransactionReceipt" /\ j = i
                 /\ ~txStatuses[j].success /\ txStatuses'[j].success]_vars

\* C25 witness: in a retry iteration the second entry of three got a new
\* hash while the first entry stayed confirmed.
C25_Witness ==
  /\ Len(txStatuses) = 3
  /\ count.iters = 2
  /\ txStatuses[1].success /\ ~txStatuses[2].success
  /\ pc = "sendTx" /\ i = 3
  /\ txStatuses[2].txHash = lastSent[2]
  /\ txStatuses[2].txHash > txStatuses[1].txHash
  /\ txStatuses[1].txHash = okHash[1]

FatalRevertArrives ==
  /\ pc = "getTransactionReceipt" /\ pc' # pc
  /\ receipt'.got /\ ~receipt'.status
  /\ receipt'.revertError = "INCORRECT_STATE_HASH"

\* C29: no transient failure, however many came before it, makes
\* publishRollup return: a failing gate poll, a raised send, a raised
\* receipt fetch and a non-fatal revert each start a sleep, after which an
\* uninterrupted call polls, sends or fetches again; an uninterrupted call
\* returns only by publishing, on a missing receipt, on a fatal revert, or
\* by raising.
C29_NoRetryLimit ==
  [][/\ (faults' = faults + 1) => (pc' \in SleepPcs /\ result' = "none")
     /\ (pc \in SleepPcs /\ pc' # pc /\ ~interrupted) =>
          /\ pc' = CASE pc = "gateSleep" -> "getBlockByNumber"
                     [] pc = "sendSleep" -> "sendTx"
                     [] pc = "receiptSleep" -> "getTransactionReceipt"
                     [] pc = "revertSleep" -> "getBlockByNumber"
          /\ result' = "none"
     /\ (pc # "done" /\ pc' = "done" /\ ~interrupted) =>
          \/ result' = "true"
          \/ result' = "threw"
          \/ result' = "false" /\ (NoReceiptReturned \/ FatalRevertArrives)]_vars

\* C29 witness: after as many transient failures as the client makes (a
\* failing gate poll and a non-fatal revert among them) the call is still
\* running and is sending again in its second outer iteration.
C29_Witness ==
  /\ faults = MaxFaults
  /\ ~interrupted
  /\ pc = "sendTx" /\ result = "none"
  /\ count.iters = 2
  /\ count.sleeps = MaxFaults
  /\ count.polls = 3

\* C30: the confirmed entries form a prefix of the status list: no entry is
\* confirmed while an earlier one is not, the proof entry is confirmed only
\* when every broadcast entry is, and the entry whose receipt is being
\* fetched is the first unconfirmed entry.
C30_ConfirmedPrefix ==
  /\ \A j, k \in 1..Len(txStatuses) :
       (j < k /\ txStatuses[k].success) => txStatuses[j].success
  /\ \A k \in 1..Len(txStatuses) :
       (IsProof(k) /\ txStatuses[k].success) =>
          \A j \in 1..Len(txStatuses) : txStatuses[j].success
  /\ pc \in {"getTransactionReceipt", "receiptSleep"} =>
       /\ ~txStatuses[i].success
       /\ \A j \in 1..(i - 1) : txStatuses[j].success

\* C30 witness: in a retry iteration the receipt of the second entry is
\* being fetched, the first entry confirmed and the third not.
C30_Witness ==
  /\ Len(txStatuses) = 3
  /\ count.iters = 2
  /\ pc = "getTransactionReceipt" /\ i = 2
  /\ txStatuses[1].success
  /\ ~txStatuses[2].success /\ ~txStatuses[3].success
  /\ polling = txStatuses[2].txHash

C27_InterruptedCallReturns ==
  (interrupted /\ active = 1) ~> (pc = "done" /\ active = 0)

\* C27 witness: every send of the call raised, interrupt() ran, and the
\* call has returned false.
C27_Witness ==
  /\ pc = "done" /\ result = "false"
  /\ intrDuring
  /\ count.sends = 2 /\ count.sleeps = 2
  /\ \A p \in 1..Len(iterLog) : iterLog[p].ev # "hash"
  /\ \A j \in 1..Len(txStatuses) : txStatuses[j].txHash = NoHash

\* What ends a call other than publishing: an interrupt, a missing receipt,
\* a fatal revert, or a collaborator raising outside a try block.
EndedOtherwise ==
  \/ interrupted
  \/ count.timeouts > 0
  \/ result = "threw"
  \/ pc = "done" /\ receipt.got /\ ~receipt.status
       /\ receipt.revertError = "INCORRECT_STATE_HASH"

\* C28: a publishRollup call that is never interrupted, in which no receipt
\* is missing, no revert is fatal and nothing raises outside a try block,
\* eventually returns true once the transient failures (failing gate polls,
\* raised sends, raised receipt fetches, non-fatal reverts) have stopped,
\* however many there were, when timers fire and collaborator calls return.
C28_EventuallyPublished ==
  (active = 1) ~> (result = "true" \/ EndedOtherwise)

\* C28 witness: the call returned true, without interrupt, after as many
\* transient failures as the client makes, a failing gate poll and a
\* non-fatal revert among them.
C28_Witness ==
  /\ pc = "done" /\ result = "true"
  /\ ~interrupted
  /\ faults = MaxFaults
  /\ count.iters = 2
  /\ count.polls = 3
  /\ count.sleeps = MaxFaults

\* The entries for which sendTx returned a hash in the current outer
\* iteration.
SentInIteration ==
  {iterLog[p].i : p \in {q \in 1..Len(iterLog) : iterLog[q].ev = "hash"}}

\* C31 (as claimed): confirmSent is called only when, in the same outer
\* iteration, sendTx has returned a hash for every entry that was
\* unconfirmed at the start of the iteration; an iteration whose send phase
\* an interrupt cut short returns false without calling confirmSent.
C31_ConfirmSentOnlyAfterFullSend ==
  pc = "confirmSent" =>
    \A j \in 1..Len(txStatuses) :
      ~txStatuses[j].success => j \in SentInIteration

\* C32: when the send phase of an outer iteration ends without interrupt,
\* the entries sent in it are exactly the entries unconfirmed at its start,
\* each once and in list order, whether or not they held a hash from an
\* earlier iteration, and each holds the hash its send returned; every
\* receipt fetched is for the hash that entry's latest send returned, a send
\* of the same iteration.
C32_UnconfirmedResentFreshHash ==
  /\ (pc = "confirmSent" /\ ~interrupted) =>
       /\ SentInIteration = {j \in 1..Len(txStatuses) : ~txStatuses[j].success}
       /\ \A p, q \in 1..Len(iterLog) :
            (p < q /\ iterLog[p].ev = "hash" /\ iterLog[q].ev = "hash")
              => iterLog[p].i < iterLog[q].i
       /\ \A p \in 1..Len(iterLog) :
            iterLog[p].ev = "hash" =>
              /\ txStatuses[iterLog[p].i].txHash = iterLog[p].hash
              /\ lastSent[iterLog[p].i] = iterLog[p].hash
  /\ pc \in {"getTransactionReceipt", "receiptSleep"} =>
       /\ polling = txStatuses[i].txHash
       /\ polling = lastSent[i]
       /\ \E p \in 1..Len(iterLog) :
            iterLog[p].ev = "hash" /\ iterLog[p].i = i /\ iterLog[p].hash = polling

\* C32 witness: the first of three entries reverted in the first iteration,
\* so the receipts of the other two were never polled; in the second
\* iteration all three were sent again and the receipt being fetched for the
\* second entry is for its new hash.
C32_Witness ==
  /\ Len(txStatuses) = 3
  /\ count.iters = 2
  /\ count.sends = 6
  /\ pc = "getTransactionReceipt" /\ i = 2
  /\ count.receipts = 3
  /\ txStatuses[1].success
  /\ polling = lastSent[2]
  /\ polling = 5

\* C33: while the receipt of the rollup-proof entry is fetched, the hash
\* last passed to confirmSent is the hash being polled, and confirmSent has
\* been called once in every outer iteration so far.
C33_ConfirmSentTracksProofHash ==
  pc \in {"getTransactionReceipt", "receiptSleep"} =>
    /\ IsProof(i) => (sentHash = polling /\ sentHash = txStatuses[i].txHash)
    /\ sentHash = txStatuses[Len(txStatuses)].txHash
    /\ count.confirms = count.iters

\* C33 witness: the proof was sent again in a second iteration, confirmSent
\* was called again, and the receipt of the new hash is being fetched.
C33_Witness ==
  /\ Len(txStatuses) = 1
  /\ count.iters = 2 /\ count.confirms = 2
  /\ pc = "getTransactionReceipt" /\ IsProof(i)
  /\ sentHash = polling
  /\ polling = 2

\* C34: the publish timer has been stopped once when publishRollup has
\* returned true, in the step that returns, and not at all in any other
\* state: not while the call runs, not when it returns false, not when it
\* raises.
C34_TimerStoppedOnlyOnSuccess ==
  [][/\ count.timerStops = (IF result = "true" THEN 1 ELSE 0)
     /\ (count'.timerStops # count.timerStops) =>
          (pc # "done" /\ pc' = "done" /\ result' = "true"
             /\ count'.timerStops = 1)]_vars

\* C34 witness: the call returned true in its second outer iteration and the
\* timer was stopped once.
C34_Witness ==
  /\ pc = "done" /\ result = "true"
  /\ count.iters = 2
  /\ count.timerStops = 1
  /\ Len(txStatuses) = 2

====
